---- MODULE Spec2Model ----
(***************************************************************************)
(* A model of rusty_crawler: N crawl workers sharing a frontier            *)
(* (link_queue) and a LinkGraph, an optional status task, and try_main's   *)
(* join loop.  Sources: src/src/main.rs, src/src/crawler.rs,               *)
(* src/src/model/link_graph.rs, src/rusty_crawler/src/model/link.rs.       *)
(***************************************************************************)
EXTENDS Integers, Sequences, FiniteSets, TLC

\* ------------------------------------------------------------------ bounds
\* largest --n-worker-threads explored
MaxWorkers == 2
\* largest --max-links explored
MaxBudget == 2

\* ------------------------------------------------------------------- URLs
\* The default String of LinkPath::default(): the seed's parent, and the
\* child of the entry pop_back().unwrap_or(Default::default()) yields.
EmptyString == ""
\* What Url::parse / get_url give for a string that is no absolute URL.
ParseError == "<parse error>"
\* Absolute URLs in the form Url::to_string writes them.
Pages == {"s/", "p1/", "p2/"}
\* Seeds the command line may give: a normalised URL, the same URL as a
\* user types it (Url::to_string adds the trailing slash), and a string
\* that is no URL.
Seeds == {"s/", "s", "not a url"}

\* Url::parse followed by Url::to_string.
Url_parse(s) ==
    IF s \in Pages THEN s
    ELSE IF s = "s" THEN "s/"
    ELSE ParseError

\* get_url: an href that parses is taken as it is, anything else is joined
\* to the page's own URL (the empty href joins to the page itself).
get_url(path, root_url) ==
    IF Url_parse(path) # ParseError THEN Url_parse(path)
    ELSE IF path = EmptyString THEN root_url
    ELSE ParseError

\* ------------------------------------------------------------------ sites
NoPage == [links |-> <<>>, images |-> <<>>, titles |-> <<>>]
Logo == [link |-> "s/logo.png", alt |-> ""]

\* What an HTTP 200 of each page holds: hrefs, images, titles.
Leaf == [p \in Pages |-> NoPage]
TitledLeaf ==
    [p \in Pages |->
        IF p = "s/" THEN [links |-> <<>>, images |-> <<Logo>>, titles |-> <<"Home">>]
        ELSE NoPage]
Cycle ==
    [p \in Pages |->
        IF p = "s/" THEN [links |-> <<"p1/">>, images |-> <<>>, titles |-> <<>>]
        ELSE IF p = "p1/" THEN [links |-> <<"p2/">>, images |-> <<>>, titles |-> <<>>]
        ELSE [links |-> <<"s">>, images |-> <<>>, titles |-> <<>>]]
Diamond ==
    [p \in Pages |->
        IF p = "s/" THEN [links |-> <<"p1/", "p2/">>, images |-> <<>>, titles |-> <<>>]
        ELSE IF p = "p1/" THEN [links |-> <<"p2/">>, images |-> <<>>, titles |-> <<>>]
        ELSE [links |-> <<"p1/">>, images |-> <<>>, titles |-> <<>>]]
SelfLoop ==
    [p \in Pages |->
        IF p = "s/" THEN [links |-> <<EmptyString>>, images |-> <<>>, titles |-> <<>>]
        ELSE NoPage]
Twin ==
    [p \in Pages |->
        IF p = "s/" THEN [links |-> <<"p1/", "p1/">>, images |-> <<>>, titles |-> <<>>]
        ELSE IF p = "p1/" THEN [links |-> <<"s/">>, images |-> <<>>, titles |-> <<"One">>]
        ELSE NoPage]
Sites == {Leaf, TitledLeaf, Cycle, Diamond, SelfLoop, Twin}

\* How the fetch collaborator behaves in a run: every request answers 200,
\* every request fails, or each request may do either.
Extractors == {"up", "down", "flaky"}

\* ------------------------------------------------------------------ state
VARIABLES
    starting_url,       \* ProgramArgs.starting_url
    max_links,          \* CrawlerState.max_links
    n_worker_threads,   \* ProgramArgs.n_worker_threads
    log_status,         \* ProgramArgs.log_status
    site,               \* the web the run crawls
    extractor,          \* how the fetch collaborator behaves
    link_queue,         \* CrawlerState.link_queue: VecDeque<LinkPath>
    links,              \* LinkGraph.links: LinkId -> Link
    link_ids,           \* LinkGraph.link_ids: url -> LinkId
    LINK_ID_COUNTER,    \* the process-wide id counter
    queue_lock,         \* the RwLock around link_queue
    graph_lock,         \* the RwLock around link_graph
    pc,                 \* each worker's place in crawl()
    path,               \* each worker's popped LinkPath
    scrape_output,      \* each worker's ScrapeOutput
    result,             \* each worker's crawl() result once it returned
    helper_failed,      \* whether the worker's last scrape_page_helper erred
    fetched,            \* how many requests each page has received
    update_errors,      \* "could not update the link graph" log entries
    status_pc,          \* output_status's place
    joined,             \* the tasks join_next has returned
    error_log,          \* "Error: ..." entries of the join loop
    main_pc             \* try_main's place

config == <<starting_url, max_links, n_worker_threads, log_status, site, extractor>>
graph == <<links, link_ids, LINK_ID_COUNTER>>
locks == <<queue_lock, graph_lock>>
worker == <<pc, path, scrape_output, result, helper_failed>>
main == <<joined, error_log, main_pc>>
vars == <<config, link_queue, graph, locks, worker, fetched, update_errors,
          status_pc, main>>

Workers == 1 .. n_worker_threads
\* Task ids: the status task and try_main itself.
StatusTask == 0
MainTask == -1
Unlocked == [writer |-> 0, readers |-> {}]
NoLinkId == -1

\* ------------------------------------------------------------- LinkGraph
\* How often id occurs in seq.
Count(seq, id) == Cardinality({i \in 1 .. Len(seq) : seq[i] = id})

\* NewLink with a derived Default: every id is 0.
NewLink_zero_id(id, url) ==
    [id |-> 0, url |-> url, children |-> <<>>, parents |-> <<>>,
     images |-> <<>>, titles |-> <<>>]

\* Link { url, ..Default::default() } with the id drawn from the counter.
NewLink(id, url) ==
    [id |-> id, url |-> url, children |-> <<>>, parents |-> <<>>,
     images |-> <<>>, titles |-> <<>>]

\* HashMap::insert
Insert(m, k, v) == [x \in DOMAIN m \cup {k} |-> IF x = k THEN v ELSE m[x]]

\* LinkGraph::len
len(ls) == Cardinality(DOMAIN ls)

\* LinkGraph::link_visited
link_visited(ids, url) == url \in DOMAIN ids

\* valid_children without the filter: a child link_ids does not know gets
\* the id it is expected to be given later.
valid_children_unfiltered(ids, children) ==
    [i \in 1 .. Len(children) |->
        IF children[i] \in DOMAIN ids THEN ids[children[i]]
        ELSE Cardinality(DOMAIN ids) + i]

\* The ids of those of `children` that link_ids knows, in order.
RECURSIVE valid_children(_, _)
valid_children(ids, children) ==
    IF children = <<>> THEN <<>>
    ELSE LET rest == valid_children(ids, Tail(children))
         IN IF Head(children) \in DOMAIN ids
            THEN <<ids[Head(children)]>> \o rest
            ELSE rest

\* lookup with unwrap_or_default(): an unknown URL resolves to id 0.
lookup_or_default(ids, url) == IF url \in DOMAIN ids THEN ids[url] ELSE 0

\* link_ids.get(url).cloned(), NoLinkId for None.
lookup(ids, url) == IF url \in DOMAIN ids THEN ids[url] ELSE NoLinkId

\* force_get_link_id without the lookup: a new Link on every call.
force_get_link_id_always_new(g, url) ==
    LET new_link == NewLink(g.counter, url)
        id == new_link.id
    IN [g |-> [g EXCEPT !.counter = g.counter + 1,
                        !.links = Insert(g.links, id, new_link),
                        !.link_ids = Insert(g.link_ids, url, id)],
        id |-> id, err |-> ""]

\* force_get_link_id without line 95: the new Link is stored, not indexed.
force_get_link_id_unindexed(g, url) ==
    IF url \in DOMAIN g.link_ids
    THEN [g |-> g, id |-> g.link_ids[url], err |-> ""]
    ELSE LET new_link == NewLink(g.counter, url)
         IN [g |-> [g EXCEPT !.counter = g.counter + 1,
                             !.links = Insert(g.links, new_link.id, new_link)],
             id |-> new_link.id, err |-> ""]

\* force_get_link_id taking a URL that has its Link for an error.
force_get_link_id_rejecting_known(g, url) ==
    IF url \in DOMAIN g.link_ids
    THEN [g |-> g, id |-> g.link_ids[url], err |-> "link already exists"]
    ELSE LET new_link == NewLink(g.counter, url)
         IN [g |-> [g EXCEPT !.counter = g.counter + 1,
                             !.links = Insert(g.links, new_link.id, new_link),
                             !.link_ids = Insert(g.link_ids, url, new_link.id)],
             id |-> new_link.id, err |-> ""]

\* force_get_link_id with a counter that is read and not advanced: the
\* second new Link draws the id of the first.
force_get_link_id_counter_stuck(g, url) ==
    IF url \in DOMAIN g.link_ids
    THEN LET id == g.link_ids[url]
         IN [g |-> g, id |-> id,
             err |-> IF id \in DOMAIN g.links THEN "" ELSE "failed to get link"]
    ELSE LET new_link == NewLink(g.counter, url)
             id == new_link.id
             inserted == [g EXCEPT !.links = Insert(g.links, id, new_link)]
         IN IF id \in DOMAIN g.links
            THEN [g |-> inserted, id |-> id, err |-> "link already exists"]
            ELSE [g |-> [inserted EXCEPT !.link_ids = Insert(g.link_ids, url, id)],
                  id |-> id, err |-> ""]

\* LinkGraph::force_get_link_id on g = [links, link_ids, counter]: the graph
\* afterwards, the id, and the error ("" for Ok).  A HashMap::insert on a
\* key already there replaces the value and returns Some, which is the
\* "link already exists" error raised before link_ids is touched.
force_get_link_id(g, url) ==
    IF url \in DOMAIN g.link_ids
    THEN LET id == g.link_ids[url]
         IN [g |-> g, id |-> id,
             err |-> IF id \in DOMAIN g.links THEN "" ELSE "failed to get link"]
    ELSE LET new_link == NewLink(g.counter, url)
             id == new_link.id
             inserted == [g EXCEPT !.counter = g.counter + 1,
                                   !.links = Insert(g.links, id, new_link)]
         IN IF id \in DOMAIN g.links
            THEN [g |-> inserted, id |-> id, err |-> "link already exists"]
            ELSE [g |-> [inserted EXCEPT !.link_ids = Insert(g.link_ids, url, id)],
                  id |-> id, err |-> ""]

\* extend_link appending the parent only when it is not among the parents.
extend_link_deduplicating(link, maybe_parent, valid, images, titles) ==
    [link EXCEPT
        !.parents = IF maybe_parent # NoLinkId /\ Count(@, maybe_parent) = 0
                    THEN Append(@, maybe_parent) ELSE @,
        !.children = @ \o valid,
        !.images = @ \o images,
        !.titles = @ \o titles]

\* extend_link without line 38: the valid children are left out.
extend_link_without_children(link, maybe_parent, valid, images, titles) ==
    [link EXCEPT
        !.parents = IF maybe_parent # NoLinkId THEN Append(@, maybe_parent) ELSE @,
        !.images = @ \o images,
        !.titles = @ \o titles]

\* link_graph.rs 34-42: what update appends to the link of `url`.
extend_link(link, maybe_parent, valid, images, titles) ==
    [link EXCEPT
        !.parents = IF maybe_parent # NoLinkId THEN Append(@, maybe_parent) ELSE @,
        !.children = @ \o valid,
        !.images = @ \o images,
        !.titles = @ \o titles]

\* push_child with the edge turned round: the parent's id goes onto the
\* link's own children.
push_child_reversed(ls, parent_id, this_link_id) ==
    [ls EXCEPT ![this_link_id].children = Append(@, parent_id)]

\* update without the parent's side of the edge.
push_child_forgotten(ls, parent_id, this_link_id) == ls

\* link_graph.rs 54: parent_link.children.push(this_link_id)
push_child(ls, parent_id, this_link_id) ==
    [ls EXCEPT ![parent_id].children = Append(@, this_link_id)]

\* LinkGraph::update: the graph afterwards and the error ("" for Ok).  An
\* error returns at once and leaves what was written so far.
update(g, url, parent, children, images, titles) ==
    LET maybe_parent == lookup(g.link_ids, parent)
        valid == valid_children(g.link_ids, children)
        got == force_get_link_id(g, url)
    IN IF got.err # "" THEN [g |-> got.g, err |-> got.err]
       ELSE LET merged == extend_link(got.g.links[got.id], maybe_parent, valid,
                                      images, titles)
                g1 == [got.g EXCEPT !.links[got.id] = merged]
            IN IF maybe_parent = NoLinkId THEN [g |-> g1, err |-> ""]
               ELSE IF maybe_parent \notin DOMAIN g1.links
               THEN [g |-> g1, err |-> "could not find parent link"]
               ELSE [g |-> [g1 EXCEPT !.links = push_child(g1.links, maybe_parent, got.id)],
                     err |-> ""]

\* ---------------------------------------------------------------- crawler
NoPath == [parent |-> EmptyString, child |-> EmptyString]
NoOutput == [links |-> <<>>, images |-> <<>>, titles |-> <<>>]

\* The hrefs of a page turned absolute; those get_url rejects are dropped.
RECURSIVE absolute_links(_, _)
absolute_links(hrefs, url) ==
    IF hrefs = <<>> THEN <<>>
    ELSE LET rest == absolute_links(Tail(hrefs), url)
         IN IF get_url(Head(hrefs), url) # ParseError
            THEN <<get_url(Head(hrefs), url)>> \o rest
            ELSE rest

\* scrape_page: the helper's output, or the empty output when it erred,
\* with the links made absolute.
scrape_page(url, failed) ==
    LET out == IF failed THEN NoOutput ELSE site[url]
    IN [out EXCEPT !.links = absolute_links(out.links, url)]

\* The merge loop without the visited test: one entry per link.
new_paths_unchecked(ids, child, ls) ==
    [i \in 1 .. Len(ls) |-> [parent |-> child, child |-> ls[i]]]

\* The entries the merge loop pushes: one per link not yet visited.
RECURSIVE new_paths(_, _, _)
new_paths(ids, child, ls) ==
    IF ls = <<>> THEN <<>>
    ELSE LET rest == new_paths(ids, child, Tail(ls))
         IN IF ~link_visited(ids, Head(ls))
            THEN <<[parent |-> child, child |-> Head(ls)]>> \o rest
            ELSE rest

\* new_crawler_state, with the tasks spawned.
Init ==
    /\ starting_url \in Seeds
    /\ max_links \in 0 .. MaxBudget
    /\ n_worker_threads \in 1 .. MaxWorkers
    /\ log_status \in BOOLEAN
    /\ site \in Sites
    /\ extractor \in Extractors
    /\ link_queue = <<[parent |-> EmptyString, child |-> starting_url]>>
    /\ links = <<>>
    /\ link_ids = <<>>
    /\ LINK_ID_COUNTER = 0
    /\ queue_lock = Unlocked
    /\ graph_lock = Unlocked
    /\ pc = [w \in Workers |-> "check"]
    /\ path = [w \in Workers |-> NoPath]
    /\ scrape_output = [w \in Workers |-> NoOutput]
    /\ result = [w \in Workers |-> "running"]
    /\ helper_failed = [w \in Workers |-> FALSE]
    /\ fetched = [p \in Pages |-> 0]
    /\ update_errors = 0
    /\ status_pc = IF log_status THEN "lock_queue" ELSE "off"
    /\ joined = {}
    /\ error_log = 0
    /\ main_pc = "join"

\* The budget test with >= : a worker leaves at len() = max_links.
OverBudget_at_limit(n, max) == n >= max

\* The budget test off by one: a worker goes on at max_links + 1.
OverBudget_late(n, max) == n > max + 1

\* main.rs 86: the budget test.
OverBudget(n, max) == n > max

\* The loop without its break: the budget is read and the worker goes on.
CheckBudget_without_break(w) ==
    /\ pc[w] = "check"
    /\ graph_lock.writer = 0
    /\ pc' = [pc EXCEPT ![w] = "dequeue"]
    /\ UNCHANGED <<config, link_queue, graph, locks, path, scrape_output, result,
                   helper_failed, fetched, update_errors, status_pc, main>>

\* main.rs 85-88: read len() under the read lock, break when over budget.
CheckBudget(w) ==
    /\ pc[w] = "check"
    /\ graph_lock.writer = 0
    /\ IF OverBudget(len(links), max_links)
       THEN /\ pc' = [pc EXCEPT ![w] = "done"]
            /\ result' = [result EXCEPT ![w] = "ok"]
       ELSE /\ pc' = [pc EXCEPT ![w] = "dequeue"]
            /\ UNCHANGED result
    /\ UNCHANGED <<config, link_queue, graph, locks, path, scrape_output,
                   helper_failed, fetched, update_errors, status_pc, main>>

\* pop_front in place of pop_back: the oldest entry is handed out.
pop_back_oldest(q) == IF q = <<>> THEN NoPath ELSE q[1]

\* main.rs 92: pop_back().unwrap_or(Default::default())
pop_back(q) == IF q = <<>> THEN NoPath ELSE q[Len(q)]

\* Dequeue with the empty pop answered by a wait: the worker goes back to
\* the budget check instead of parsing the default entry's child.
Dequeue_waiting_when_empty(w) ==
    /\ pc[w] = "dequeue"
    /\ queue_lock = Unlocked
    /\ path' = [path EXCEPT ![w] = pop_back(link_queue)]
    /\ link_queue' = IF link_queue = <<>> THEN <<>>
                     ELSE SubSeq(link_queue, 1, Len(link_queue) - 1)
    /\ IF link_queue = <<>>
       THEN /\ pc' = [pc EXCEPT ![w] = "check"]
            /\ UNCHANGED result
       ELSE IF Url_parse(pop_back(link_queue).child) = ParseError
       THEN /\ pc' = [pc EXCEPT ![w] = "done"]
            /\ result' = [result EXCEPT ![w] = "err"]
       ELSE /\ pc' = [pc EXCEPT ![w] = "fetch"]
            /\ UNCHANGED result
    /\ UNCHANGED <<config, graph, locks, scrape_output,
                   helper_failed, fetched, update_errors, status_pc, main>>

\* Dequeue without drop(link_queue): the write guard lives on.
Dequeue_keeping_guard(w) ==
    /\ pc[w] = "dequeue"
    /\ queue_lock = Unlocked
    /\ queue_lock' = [queue_lock EXCEPT !.writer = w]
    /\ path' = [path EXCEPT ![w] = pop_back(link_queue)]
    /\ link_queue' = IF link_queue = <<>> THEN <<>>
                     ELSE SubSeq(link_queue, 1, Len(link_queue) - 1)
    /\ IF Url_parse(pop_back(link_queue).child) = ParseError
       THEN /\ pc' = [pc EXCEPT ![w] = "done"]
            /\ result' = [result EXCEPT ![w] = "err"]
       ELSE /\ pc' = [pc EXCEPT ![w] = "fetch"]
            /\ UNCHANGED result
    /\ UNCHANGED <<config, graph, graph_lock, scrape_output,
                   helper_failed, fetched, update_errors, status_pc, main>>

\* main.rs 91-97: pop under the write lock, then Url::parse(&child)?
Dequeue(w) ==
    /\ pc[w] = "dequeue"
    /\ queue_lock = Unlocked
    /\ path' = [path EXCEPT ![w] = pop_back(link_queue)]
    /\ link_queue' = IF link_queue = <<>> THEN <<>>
                     ELSE SubSeq(link_queue, 1, Len(link_queue) - 1)
    /\ IF Url_parse(pop_back(link_queue).child) = ParseError
       THEN /\ pc' = [pc EXCEPT ![w] = "done"]
            /\ result' = [result EXCEPT ![w] = "err"]
       ELSE /\ pc' = [pc EXCEPT ![w] = "fetch"]
            /\ UNCHANGED result
    /\ UNCHANGED <<config, graph, locks, scrape_output,
                   helper_failed, fetched, update_errors, status_pc, main>>

\* Fetch with the helper's error passed on by `?`: the worker returns Err.
Fetch_propagating(w) ==
    /\ pc[w] = "fetch"
    /\ \E failed \in BOOLEAN :
        /\ extractor = "up" => ~failed
        /\ extractor = "down" => failed
        /\ helper_failed' = [helper_failed EXCEPT ![w] = failed]
        /\ scrape_output' = [scrape_output EXCEPT
                                ![w] = scrape_page(Url_parse(path[w].child), failed)]
        /\ pc' = [pc EXCEPT ![w] = IF failed THEN "done" ELSE "lock_queue"]
        /\ result' = [result EXCEPT ![w] = IF failed THEN "err" ELSE @]
    /\ fetched' = [fetched EXCEPT ![Url_parse(path[w].child)] = @ + 1]
    /\ UNCHANGED <<config, link_queue, graph, locks, path,
                   update_errors, status_pc, main>>

\* main.rs 97, crawler.rs 170-194: scrape_page, holding no lock.
Fetch(w) ==
    /\ pc[w] = "fetch"
    /\ \E failed \in BOOLEAN :
        /\ extractor = "up" => ~failed
        /\ extractor = "down" => failed
        /\ helper_failed' = [helper_failed EXCEPT ![w] = failed]
        /\ scrape_output' = [scrape_output EXCEPT
                                ![w] = scrape_page(Url_parse(path[w].child), failed)]
    /\ fetched' = [fetched EXCEPT ![Url_parse(path[w].child)] = @ + 1]
    /\ pc' = [pc EXCEPT ![w] = "lock_queue"]
    /\ UNCHANGED <<config, link_queue, graph, locks, path,
                   result, update_errors, status_pc, main>>

\* LockQueue going on without the guard.
LockQueue_without_guard(w) ==
    /\ pc[w] = "lock_queue"
    /\ pc' = [pc EXCEPT ![w] = "lock_graph"]
    /\ UNCHANGED <<config, link_queue, graph, locks, path, scrape_output,
                   result, helper_failed, fetched,
                   update_errors, status_pc, main>>

\* main.rs 99: link_queue.write().await
LockQueue(w) ==
    /\ pc[w] = "lock_queue"
    /\ queue_lock = Unlocked
    /\ queue_lock' = [queue_lock EXCEPT !.writer = w]
    /\ pc' = [pc EXCEPT ![w] = "lock_graph"]
    /\ UNCHANGED <<config, link_queue, graph, graph_lock, path, scrape_output,
                   result, helper_failed, fetched,
                   update_errors, status_pc, main>>

\* main.rs 100: link_graph.write().await
LockGraph(w) ==
    /\ pc[w] = "lock_graph"
    /\ graph_lock = Unlocked
    /\ graph_lock' = [graph_lock EXCEPT !.writer = w]
    /\ pc' = [pc EXCEPT ![w] = "merge"]
    /\ UNCHANGED <<config, link_queue, graph, queue_lock, path, scrape_output,
                   result, helper_failed, fetched,
                   update_errors, status_pc, main>>

\* main.rs 101-122: push the unvisited links, update the graph, and drop
\* both guards at the end of the loop body.
Merge(w) ==
    /\ pc[w] = "merge"
    /\ queue_lock.writer = w
    /\ graph_lock.writer = w
    /\ LET out == scrape_output[w]
           g == [links |-> links, link_ids |-> link_ids, counter |-> LINK_ID_COUNTER]
           upd == update(g, path[w].child, path[w].parent,
                         out.links, out.images, out.titles)
       IN /\ link_queue' = link_queue \o new_paths(link_ids, path[w].child, out.links)
          /\ links' = upd.g.links
          /\ link_ids' = upd.g.link_ids
          /\ LINK_ID_COUNTER' = upd.g.counter
          /\ update_errors' = IF upd.err # "" THEN update_errors + 1 ELSE update_errors
    /\ queue_lock' = Unlocked
    /\ graph_lock' = Unlocked
    /\ path' = [path EXCEPT ![w] = NoPath]
    /\ scrape_output' = [scrape_output EXCEPT ![w] = NoOutput]
    /\ pc' = [pc EXCEPT ![w] = "check"]
    /\ UNCHANGED <<config, result, helper_failed, fetched,
                   status_pc, main>>

\* output_status taking link_graph first: the read guards in the other order.
StatusLockQueue_graph_first ==
    /\ status_pc = "lock_queue"
    /\ graph_lock.writer = 0
    /\ graph_lock' = [graph_lock EXCEPT !.readers = @ \cup {StatusTask}]
    /\ status_pc' = "lock_graph"
    /\ UNCHANGED <<config, link_queue, graph, queue_lock, worker, fetched,
                   update_errors, main>>

\* main.rs 59: link_queue.read().await
StatusLockQueue ==
    /\ status_pc = "lock_queue"
    /\ queue_lock.writer = 0
    /\ queue_lock' = [queue_lock EXCEPT !.readers = @ \cup {StatusTask}]
    /\ status_pc' = "lock_graph"
    /\ UNCHANGED <<config, link_queue, graph, graph_lock, worker, fetched,
                   update_errors, main>>

\* main.rs 60-71: link_graph.read().await, the budget test, the drops.
StatusCheck ==
    /\ status_pc = "lock_graph"
    /\ graph_lock.writer = 0
    /\ status_pc' = IF OverBudget(len(links), max_links) THEN "done" ELSE "sleep"
    /\ queue_lock' = [queue_lock EXCEPT !.readers = @ \ {StatusTask}]
    /\ UNCHANGED <<config, link_queue, graph, graph_lock, worker, fetched,
                   update_errors, main>>

\* main.rs 73: the 500 ms sleep.
StatusSleep ==
    /\ status_pc = "sleep"
    /\ status_pc' = "lock_queue"
    /\ UNCHANGED <<config, link_queue, graph, locks, worker, fetched,
                   update_errors, main>>

\* The tasks try_main put into the JoinSet, and those that have returned.
Tasks == Workers \cup (IF log_status THEN {StatusTask} ELSE {})
Returned(t) == IF t = StatusTask THEN status_pc = "done" ELSE pc[t] = "done"

\* The join loop passing a worker's Err on (result??): try_main leaves the
\* loop at the first worker that returned Err.
JoinNext_fail_fast ==
    /\ main_pc = "join"
    /\ \E t \in Tasks \ joined :
        /\ Returned(t)
        /\ joined' = joined \cup {t}
        /\ main_pc' = IF t # StatusTask /\ result[t] = "err"
                      THEN "finished" ELSE main_pc
    /\ UNCHANGED error_log
    /\ UNCHANGED <<config, link_queue, graph, locks, worker, fetched,
                   update_errors, status_pc>>

\* main.rs 167-171: join_next. The JoinSet's task awaits a JoinHandle, so
\* `result` is Err only for a JoinError of that outer task; crawl's own
\* Result is the Ok payload and is not looked at.
JoinNext ==
    /\ main_pc = "join"
    /\ \E t \in Tasks \ joined :
        /\ Returned(t)
        /\ joined' = joined \cup {t}
    /\ UNCHANGED <<error_log, main_pc>>
    /\ UNCHANGED <<config, link_queue, graph, locks, worker, fetched,
                   update_errors, status_pc>>

\* The final read after a single join_next instead of the loop.
FinalRead_after_first_join ==
    /\ main_pc = "join"
    /\ joined # {}
    /\ graph_lock.writer = 0
    /\ graph_lock' = [graph_lock EXCEPT !.readers = @ \cup {MainTask}]
    /\ main_pc' = "finished"
    /\ UNCHANGED <<joined, error_log>>
    /\ UNCHANGED <<config, link_queue, graph, queue_lock, worker, fetched,
                   update_errors, status_pc>>

\* main.rs 167, 174: join_next gives None, then link_graph.read().await
FinalRead ==
    /\ main_pc = "join"
    /\ joined = Tasks
    /\ graph_lock.writer = 0
    /\ graph_lock' = [graph_lock EXCEPT !.readers = @ \cup {MainTask}]
    /\ main_pc' = "finished"
    /\ UNCHANGED <<joined, error_log>>
    /\ UNCHANGED <<config, link_queue, graph, queue_lock, worker, fetched,
                   update_errors, status_pc>>

WorkerStep(w) ==
    \/ CheckBudget(w)
    \/ Dequeue(w)
    \/ Fetch(w)
    \/ LockQueue(w)
    \/ LockGraph(w)
    \/ Merge(w)

StatusStep == StatusLockQueue \/ StatusCheck \/ StatusSleep

MainStep == JoinNext \/ FinalRead

Next ==
    \/ \E w \in Workers : CheckBudget(w)
    \/ \E w \in Workers : Dequeue(w)
    \/ \E w \in Workers : Fetch(w)
    \/ \E w \in Workers : LockQueue(w)
    \/ \E w \in Workers : LockGraph(w)
    \/ \E w \in Workers : Merge(w)
    \/ StatusLockQueue
    \/ StatusCheck
    \/ StatusSleep
    \/ JoinNext
    \/ FinalRead

Spec == Init /\ [][Next]_vars

\* Every spawned task and try_main keep being scheduled by the runtime, and
\* tokio's RwLock serves its waiters first-in first-out: a task that finds a
\* lock free again and again is not passed over for ever.
FairSpec ==
    /\ Spec
    /\ \A w \in 1 .. MaxWorkers : SF_vars(w \in Workers /\ WorkerStep(w))
    /\ SF_vars(StatusStep)
    /\ SF_vars(MainStep)

\* ----------------------------------------------------------------- claims
AllDone == \A w \in Workers : pc[w] = "done"
ValidSeed == Url_parse(starting_url) # ParseError
LinkIdsOf(seq) == {seq[i] : i \in 1 .. Len(seq)}

\* C1: a URL is given one LinkId: every step keeps the LinkId of every URL
\* that has one, and no two Link records hold the same URL.
C1_IdentityUniqueness ==
    [][/\ \A u \in DOMAIN link_ids :
            u \in DOMAIN link_ids' /\ link_ids'[u] = link_ids[u]
       /\ \A i, j \in DOMAIN links' : links'[i].url = links'[j].url => i = j]_vars

\* C1 witness: page p1/ was fetched twice and both updates of it are merged.
C1_Witness ==
    /\ fetched["p1/"] >= 2
    /\ "p1/" \in DOMAIN link_ids
    /\ \A w \in Workers : path[w] = NoPath

\* C2: a worker whose budget check reads len() > max_links leaves the loop
\* with Ok, and a worker that left the loop never takes another step.
C2_BudgetRespect ==
    [][\A w \in Workers :
        /\ (pc[w] = "check" /\ pc'[w] # "check" /\ len(links) > max_links)
              => (pc'[w] = "done" /\ result'[w] = "ok")
        /\ pc[w] = "done"
              => (pc'[w] = "done" /\ path'[w] = path[w] /\ result'[w] = result[w])]_vars

\* C2 witness: a worker has stopped on the budget while entries are pending.
C2_Witness ==
    \E w \in Workers :
        /\ pc[w] = "done" /\ result[w] = "ok"
        /\ len(links) > max_links
        /\ link_queue # <<>>

\* C6: every LinkId in a children or parents list is the id of a Link of
\* the graph.
C6_EdgeValidity ==
    \A i \in DOMAIN links :
        /\ LinkIdsOf(links[i].children) \subseteq DOMAIN links
        /\ LinkIdsOf(links[i].parents) \subseteq DOMAIN links

\* C6 witness: a Link holds both a child edge and a parent edge.
C6_Witness ==
    \E i \in DOMAIN links : links[i].children # <<>> /\ links[i].parents # <<>>

\* C7: no step lowers len(), removes a Link, or changes a Link's id or url.
C7_MonotonicGrowth ==
    [][/\ len(links') >= len(links)
       /\ \A i \in DOMAIN links :
            /\ i \in DOMAIN links'
            /\ links'[i].id = links[i].id
            /\ links'[i].url = links[i].url]_vars

\* C7 witness: the graph has grown to three Links.
C7_Witness == len(links) >= 3

\* C3 (as claimed): a worker that pops from an empty frontier goes on to
\* wait and check the budget again; it does not leave the loop.
C3_EmptyPopKeepsPolling ==
    [][\A w \in Workers :
        (pc[w] = "dequeue" /\ link_queue = <<>> /\ pc'[w] # "dequeue")
            => pc'[w] \in {"wait", "check"}]_vars

\* The requests made so far, over all pages.
TotalFetched == fetched["s/"] + fetched["p1/"] + fetched["p2/"]

\* C4 (as claimed): with max_links = 1 only the seed is ever fetched, once.
C4_BudgetOneFetchesSeedOnly ==
    (max_links = 1 /\ ValidSeed)
        => (TotalFetched <= 1 /\ fetched[Url_parse(starting_url)] = TotalFetched)

\* C5 (as claimed): whatever the worker count, the status flag and the site,
\* a run from a seed that is a URL reaches the end of the join loop and the
\* read of the final graph.
C5_RunCompletes == ValidSeed => <>(main_pc = "finished")

\* C8: a failed fetch gives the empty output and leads to the merge; the
\* merge of a failed fetch records the page, pushes nothing, and returns
\* the worker to the budget check, still running.
C8_FetchFailureNotFatal ==
    [][\A w \in Workers :
        /\ (pc[w] = "fetch" /\ pc'[w] # "fetch" /\ helper_failed'[w])
              => (scrape_output'[w] = NoOutput /\ pc'[w] = "lock_queue")
        /\ (pc[w] = "merge" /\ pc'[w] # "merge" /\ helper_failed[w])
              => /\ pc'[w] = "check"
                 /\ result'[w] = "running"
                 /\ link_visited(link_ids', path[w].child)
                 /\ link_queue' = link_queue]_vars

\* C8 witness: after a failed fetch of page p1/ the worker is back at the
\* budget check and the page has its record.
C8_Witness ==
    \E w \in Workers :
        /\ helper_failed[w] /\ pc[w] = "check"
        /\ fetched["p1/"] = 1
        /\ "p1/" \in DOMAIN link_ids

\* Scenarios A and D: the seed is a URL and its page yields no links.
SeedYieldsNoLinks ==
    /\ ValidSeed
    /\ site[Url_parse(starting_url)].links = <<>> \/ extractor = "down"

\* One Link, for the seed, with no edges; and nothing queued.
OnlySeedLink ==
    /\ DOMAIN links = {0}
    /\ DOMAIN link_ids = {starting_url}
    /\ links[0].id = 0 /\ links[0].url = starting_url
    /\ links[0].children = <<>> /\ links[0].parents = <<>>
    /\ link_queue = <<>>

\* C9 (as claimed): in scenarios A and D the run ends with the seed's Link
\* alone, its four lists empty, and an empty frontier.
C9_SeedOnlyAllEmpty ==
    (AllDone /\ SeedYieldsNoLinks)
        => (OnlySeedLink /\ links[0].images = <<>> /\ links[0].titles = <<>>)

\* C9 (amended): in scenarios A and D the run ends with the seed's Link
\* alone, without edges, and an empty frontier; its images and titles are
\* what the extractor returned for the seed page on each fetch of it: nothing
\* from a failed fetch, the page's own from a successful one.
C9_SeedOnly ==
    (AllDone /\ SeedYieldsNoLinks)
        => /\ OnlySeedLink
           /\ fetched[Url_parse(starting_url)] = 1
           /\ \/ links[0].images = <<>> /\ links[0].titles = <<>>
                    /\ \E w \in Workers : helper_failed[w]
              \/ links[0].images = site[Url_parse(starting_url)].images
                    /\ links[0].titles = site[Url_parse(starting_url)].titles
                    /\ extractor # "down"

\* C9 witness: a run of two workers over a seed with links has ended with
\* every fetch failed.
C9_Witness ==
    /\ AllDone /\ SeedYieldsNoLinks
    /\ n_worker_threads = 2
    /\ site = Cycle
    /\ TotalFetched = 1

\* Scenario B: seed -> page1 -> page2 -> seed, every fetch answering, the
\* seed given as the URL the extractor resolves page2's link to.
ScenarioB == site = Cycle /\ starting_url = "s/" /\ extractor = "up"

\* The edges scenario B names, for the records that exist.
ScenarioBEdges ==
    /\ "p1/" \in DOMAIN link_ids
          => /\ links[link_ids["p1/"]].parents = <<link_ids["s/"]>>
             /\ link_ids["p1/"] \in LinkIdsOf(links[link_ids["s/"]].children)
    /\ "p2/" \in DOMAIN link_ids
          => link_ids["s/"] \in LinkIdsOf(links[link_ids["p2/"]].children)

\* C10 (as claimed): in scenario B the final graph has 2 or fewer records,
\* with the edges named.
C10_ScenarioBTwoRecords ==
    (ScenarioB /\ AllDone) => (len(links) <= 2 /\ ScenarioBEdges)

\* C10 (amended): in scenario B the graph never has more than the site's 3
\* records, nor more than max_links plus one per worker, with the edges
\* named.
C10_ScenarioB ==
    ScenarioB =>
        /\ len(links) <= 3
        /\ len(links) <= max_links + n_worker_threads
        /\ ScenarioBEdges

\* C10 witness: scenario B has ended with page2 processed.
C10_Witness == ScenarioB /\ AllDone /\ "p2/" \in DOMAIN link_ids

\* C11: when the final read begins every launched worker has left its loop
\* and has been joined, and from then on neither the graph nor the frontier
\* changes.
C11_FinalReadAfterJoin ==
    [][/\ main_pc' = "finished"
            => (\A w \in Workers : pc'[w] = "done" /\ w \in joined')
       /\ main_pc = "finished"
            => (links' = links /\ link_ids' = link_ids /\ link_queue' = link_queue)]_vars

\* C11 witness: the final read has begun after two workers built a graph.
C11_Witness ==
    main_pc = "finished" /\ n_worker_threads = 2 /\ len(links) >= 2

\* A worker leaves its loop by its own budget check or by its own popped
\* entry failing to parse.
OwnExit(w) ==
    \/ pc[w] = "check" /\ len(links) > max_links
    \/ pc[w] = "dequeue" /\ Url_parse(pop_back(link_queue).child) = ParseError

\* C12: the step in which a worker's loop ends with an error changes no
\* sibling; a sibling leaves its loop only for its own reason; and after a
\* worker failed try_main still leaves the join loop only with every task
\* joined.
C12_FailureLeavesSiblings ==
    [][/\ \A w \in Workers :
            (result[w] # "err" /\ result'[w] = "err")
                => \A v \in Workers \ {w} :
                      pc'[v] = pc[v] /\ result'[v] = result[v] /\ path'[v] = path[v]
       /\ \A v \in Workers : (pc[v] # "done" /\ pc'[v] = "done") => OwnExit(v)
       /\ ((\E w \in Workers : result[w] = "err") /\ main_pc' = "finished")
            => joined' = Tasks]_vars

\* C12 witness: one worker has failed and been joined, and its sibling is
\* merging a page it fetched.
C12_Witness ==
    \E w, v \in Workers :
        /\ result[w] = "err" /\ w \in joined
        /\ pc[v] = "merge" /\ scrape_output[v].links # <<>>

\* C13 (as claimed): the join loop has written one error entry for every
\* joined worker whose crawl loop ended with an error.
C13_WorkerErrorsLogged ==
    error_log = Cardinality({w \in Workers \cap joined : result[w] = "err"})

\* C14 (as claimed): with a seed that is no URL no worker pops the frontier
\* or changes the graph, and try_main does not get past its join loop as a
\* run without error does.
C14_InvalidSeedFailsFast ==
    ~ValidSeed =>
        /\ link_queue = <<[parent |-> EmptyString, child |-> starting_url]>>
        /\ links = <<>> /\ link_ids = <<>>
        /\ main_pc # "finished"

\* C15: link_ids and links correspond one to one: distinct URLs have
\* distinct ids, the id of an indexed URL has a Link with that URL, every
\* Link is stored under its own id and indexed by its URL; so len() is the
\* number of visited URLs.
C15_IndexStoreBijection ==
    /\ \A u, v \in DOMAIN link_ids : link_ids[u] = link_ids[v] => u = v
    /\ \A u \in DOMAIN link_ids :
          link_ids[u] \in DOMAIN links /\ links[link_ids[u]].url = u
    /\ \A i \in DOMAIN links :
          /\ links[i].id = i
          /\ links[i].url \in DOMAIN link_ids
          /\ link_ids[links[i].url] = i
    /\ len(links) = Cardinality(DOMAIN link_ids)

\* C15 witness: the seed as typed and the URL a page's link resolves to are
\* both indexed, each with its own Link.
C15_Witness ==
    /\ {"s", "s/"} \subseteq DOMAIN link_ids
    /\ len(links) >= 2

\* C16: an update of a URL that already has its Link, as the repeat of a
\* call already merged is, returns Ok, creates no Link, leaves len() and the
\* URL -> LinkId mapping as they were, and leaves every edge valid.
C16_IdempotentReMerge ==
    [][\A w \in Workers :
        (pc[w] = "merge" /\ pc'[w] # "merge" /\ path[w].child \in DOMAIN link_ids)
            => /\ update_errors' = update_errors
               /\ DOMAIN links' = DOMAIN links
               /\ len(links') = len(links)
               /\ link_ids' = link_ids
               /\ \A i \in DOMAIN links' :
                     /\ LinkIdsOf(links'[i].children) \subseteq DOMAIN links'
                     /\ LinkIdsOf(links'[i].parents) \subseteq DOMAIN links']_vars

\* C16 witness: both entries the seed's two links to p1/ queued have been
\* merged: update(p1/, seed, ...) ran twice on the same arguments.
C16_Witness ==
    /\ site = Twin /\ extractor = "up"
    /\ "p1/" \in DOMAIN link_ids
    /\ links[link_ids["p1/"]].parents =
          <<link_ids[starting_url], link_ids[starting_url]>>
    /\ links[link_ids["p1/"]].titles = <<"One", "One">>

\* The locks a task holds.
HoldsQueue(t) == queue_lock.writer = t \/ t \in queue_lock.readers
HoldsGraph(t) == graph_lock.writer = t \/ t \in graph_lock.readers

\* C17: a worker in the fetch step holds neither lock, as reader or writer.
C17_NoLockInFetch ==
    \A w \in Workers : pc[w] = "fetch" => ~HoldsQueue(w) /\ ~HoldsGraph(w)

\* C17 witness: a worker is fetching while a sibling holds both locks.
C17_Witness ==
    \E w, v \in Workers :
        pc[w] = "fetch" /\ pc[v] = "merge" /\ HoldsQueue(v) /\ HoldsGraph(v)

\* C18: a worker in the merge step holds both write locks, and until its
\* merge is done nothing else touches the frontier or the graph: no sibling
\* gets past its budget check, its pop or its lock requests.
C18_MergeCriticalSection ==
    [][\A w \in Workers :
        pc[w] = "merge"
            => /\ queue_lock.writer = w /\ graph_lock.writer = w
               /\ queue_lock.readers = {} /\ graph_lock.readers = {}
               /\ pc'[w] = "merge"
                    => /\ link_queue' = link_queue
                       /\ links' = links /\ link_ids' = link_ids
                       /\ \A v \in Workers \ {w} :
                            pc[v] \in {"check", "dequeue", "lock_queue", "lock_graph"}
                                => pc'[v] = pc[v]]_vars

\* C18 witness: a worker is merging a page with links while one sibling
\* stands before its pop.
C18_Witness ==
    \E w, v \in Workers :
        /\ pc[w] = "merge" /\ scrape_output[w].links # <<>>
        /\ pc[v] = "dequeue"

\* What a step appended to the frontier.
Pushed == SubSeq(link_queue', Len(link_queue) + 1, Len(link_queue'))

\* C19: a merge pushes, behind the entries already queued, one entry
\* {parent: the merged page, child: link} for each discovered link that has
\* no LinkId when the merge begins, in the order found, and nothing else.
C19_PushIffUnvisited ==
    [][\A w \in Workers :
        (pc[w] = "merge" /\ pc'[w] # "merge")
            => LET NoId(l) == l \notin DOMAIN link_ids
                   unvisited == SelectSeq(scrape_output[w].links, NoId)
               IN /\ Len(link_queue') = Len(link_queue) + Len(unvisited)
                  /\ SubSeq(link_queue', 1, Len(link_queue)) = link_queue
                  /\ \A i \in 1 .. Len(unvisited) :
                        Pushed[i] = [parent |-> path[w].child, child |-> unvisited[i]]]_vars

\* C19 witness: page2 of the cycle was merged; its one link, to the seed,
\* had a LinkId and nothing was pushed.
C19_Witness ==
    /\ site = Cycle /\ starting_url = "s/" /\ extractor = "up"
    /\ "p2/" \in DOMAIN link_ids
    /\ link_queue = <<>>
    /\ \E w \in Workers : pc[w] = "check"

\* C20: the ids an update of page A appends to A.children for the
\* discovered links are those of the links that had a LinkId before the
\* call, in order; after them comes A's own id when A is its own parent.
C20_ChildrenAlreadyKnown ==
    [][\A w \in Workers :
        (pc[w] = "merge" /\ pc'[w] # "merge")
            => LET A == path[w].child
                   HasId(l) == l \in DOMAIN link_ids
                   known == SelectSeq(scrape_output[w].links, HasId)
                   before == IF A \in DOMAIN link_ids
                             THEN links[link_ids[A]].children ELSE <<>>
                   after == links'[link_ids'[A]].children
                   own == IF path[w].parent = A /\ A \in DOMAIN link_ids
                          THEN <<link_ids[A]>> ELSE <<>>
               IN after = before \o [i \in 1 .. Len(known) |-> link_ids[known[i]]] \o own]_vars

\* C20 witness: in the diamond, page p1/ holds an edge to p2/, which had its
\* LinkId when p1/ was merged, while the seed holds edges only through its
\* children's merges.
C20_Witness ==
    /\ site = Diamond /\ extractor = "up"
    /\ {"p1/", "p2/"} \subseteq DOMAIN link_ids
    /\ link_ids["p2/"] \in LinkIdsOf(links[link_ids["p1/"]].children)
    /\ link_ids["p2/"] < link_ids["p1/"]

\* The parents and children of the Link of `url` in graph (ls, ids); empty
\* when the URL has no Link.
parents_of(ls, ids, url) == IF url \in DOMAIN ids THEN ls[ids[url]].parents ELSE <<>>
children_of(ls, ids, url) == IF url \in DOMAIN ids THEN ls[ids[url]].children ELSE <<>>

\* C21: an update of url through a parent that has a LinkId appends the
\* parent's id to url's parents and url's id to the parent's children in
\* that same call; through a parent without a LinkId the parents of url and
\* the children of every other Link stay as they were.  So in every state
\* each entry P of X.parents has its entry X in P.children, as many times.
C21_ParentEdgePaired ==
    [][/\ \A w \in Workers :
            (pc[w] = "merge" /\ pc'[w] # "merge")
                => LET url == path[w].child
                       parent == path[w].parent
                       id == link_ids'[url]
                   IN IF parent \in DOMAIN link_ids
                      THEN LET pid == link_ids[parent]
                           IN /\ links'[id].parents
                                    = Append(parents_of(links, link_ids, url), pid)
                              /\ links'[pid].children # <<>>
                              /\ links'[pid].children[Len(links'[pid].children)] = id
                              /\ pid # id => links'[pid].children
                                                = Append(links[pid].children, id)
                      ELSE /\ links'[id].parents = parents_of(links, link_ids, url)
                           /\ \A j \in DOMAIN links : j # id => links'[j].children = links[j].children
       /\ \A x \in DOMAIN links' : \A p \in LinkIdsOf(links'[x].parents) :
            /\ p \in DOMAIN links'
            /\ Count(links'[p].children, x) >= Count(links'[x].parents, p)]_vars

\* C21 witness: in the cycle the seed was merged through its empty parent
\* and has no parents; p1/ was merged through the seed and each holds the
\* other's id.
C21_Witness ==
    /\ site = Cycle
    /\ {starting_url, "p1/"} \subseteq DOMAIN link_ids
    /\ links[link_ids[starting_url]].parents = <<>>
    /\ links[link_ids["p1/"]].parents = <<link_ids[starting_url]>>
    /\ links[link_ids[starting_url]].children = <<link_ids["p1/"]>>

\* C22: update does not de-duplicate.  A merge of a page that has its Link,
\* through a parent that has a LinkId, appends the parent's id to the page's
\* parents and the page's id to the parent's children once more, whether or
\* not they are there; and each id among the discovered links that has a
\* LinkId is appended to the page's children as often as it was discovered.
C22_DuplicateEdgesAdmitted ==
    [][\A w \in Workers :
        (pc[w] = "merge" /\ pc'[w] # "merge" /\ path[w].child \in DOMAIN link_ids)
            => LET x == link_ids[path[w].child]
                   HasId(l) == l \in DOMAIN link_ids
                   known == SelectSeq(scrape_output[w].links, HasId)
               IN /\ path[w].parent \in DOMAIN link_ids
                      => LET p == link_ids[path[w].parent]
                         IN /\ Count(links'[x].parents, p) = Count(links[x].parents, p) + 1
                            /\ Count(links'[p].children, x) > Count(links[p].children, x)
                  /\ Len(links'[x].children) >= Len(links[x].children) + Len(known)
                  /\ \A i \in 1 .. Len(known) :
                        Count(links'[x].children, link_ids[known[i]])
                            >= Count(links[x].children, link_ids[known[i]])
                                + Count([k \in 1 .. Len(known) |-> link_ids[known[k]]],
                                        link_ids[known[i]])]_vars

\* C22 witness: a page was queued twice by one parent before it had its
\* Link; both entries are processed and each of the two Links holds the
\* other's id twice, in parents on one side and children on the other.
C22_Witness ==
    \E x, p \in DOMAIN links :
        /\ x # p
        /\ Count(links[x].parents, p) >= 2
        /\ Count(links[p].children, x) >= 2
        /\ fetched[Url_parse(links[x].url)] >= 2

\* C23: the frontier is a stack.  A step changes it only by appending
\* entries behind those it holds (a merge's pushes, none dropped) or by
\* removing its last entry, the most recently pushed one still there, which
\* is the entry the popping worker goes on to visit.
C23_FrontierLIFO ==
    [][\/ link_queue' = link_queue
       \/ /\ Len(link_queue') > Len(link_queue)
          /\ SubSeq(link_queue', 1, Len(link_queue)) = link_queue
          /\ \E w \in Workers : pc[w] = "merge" /\ pc'[w] = "check"
       \/ \E w \in Workers :
            /\ pc[w] = "dequeue" /\ pc'[w] \in {"fetch", "done"}
            /\ link_queue = Append(link_queue', path'[w])
            /\ path'[w] = link_queue[Len(link_queue)]]_vars

\* C23 witness: the seed of the diamond discovered p1/ and then p2/; a
\* worker has popped p2/, discovered last, and p1/ is still queued.
C23_Witness ==
    /\ site = Diamond /\ starting_url = "s/"
    /\ link_queue = <<[parent |-> "s/", child |-> "p1/"]>>
    /\ \E w \in Workers :
        pc[w] = "fetch" /\ path[w] = [parent |-> "s/", child |-> "p2/"]

\* Workers past a budget check that let them through, not yet merged.
InFlight == {w \in Workers : pc[w] \in {"dequeue", "fetch", "lock_queue", "lock_graph", "merge"}}

\* C24: len() never exceeds max_links by more than the number of workers:
\* each worker in flight may add one Link to a graph that was within the
\* budget, or over it by the Links of the workers that merged meanwhile.
C24_BoundedOvershoot ==
    /\ len(links) <= max_links + n_worker_threads
    /\ len(links) > max_links
         => len(links) + Cardinality(InFlight) <= max_links + n_worker_threads

\* C24 witness: two workers passed the budget check at len() = max_links and
\* each added a Link.
C24_Witness ==
    /\ n_worker_threads = 2 /\ max_links >= 1
    /\ len(links) = max_links + n_worker_threads
    /\ AllDone

\* C25 (as claimed): whenever B's id is in A.children, A's id is in
\* B.parents.
C25_ChildEdgeSymmetry ==
    \A a \in DOMAIN links : \A b \in LinkIdsOf(links[a].children) :
        b \in DOMAIN links /\ a \in LinkIdsOf(links[b].parents)

\* C26: under fair scheduling every worker eventually leaves its crawl
\* loop, with Ok or with Err, whatever the site, the seed and the fetches.
C26_WorkersTerminate == <>AllDone

\* C26 witness: every worker has left the loop in a run where a page that
\* had its Link was fetched again from a duplicate frontier entry.
C26_Witness ==
    /\ AllDone
    /\ \E p \in Pages : fetched[p] >= 2
    /\ \E w \in Workers : result[w] = "ok"
    /\ \E w \in Workers : result[w] = "err"

\* C27: once every worker has left its crawl loop in a run from a seed
\* that is a URL, len() > max_links or the frontier is empty.
C27_ShutdownState ==
    (AllDone /\ ValidSeed) => (len(links) > max_links \/ link_queue = <<>>)

\* C27 witness: both workers have left the loop with the budget unmet and
\* the frontier exhausted, after more than the seed was merged.
C27_Witness ==
    /\ AllDone /\ ValidSeed
    /\ n_worker_threads = 2
    /\ len(links) = 2 /\ max_links = 2
    /\ link_queue = <<>>

\* The tasks holding each lock, as writer or reader.
QueueHolders ==
    (IF queue_lock.writer # 0 THEN {queue_lock.writer} ELSE {}) \cup queue_lock.readers
GraphHolders ==
    (IF graph_lock.writer # 0 THEN {graph_lock.writer} ELSE {}) \cup graph_lock.readers

\* The tasks whose next step asks for a lock it cannot have now.
WaitsForQueue(t) ==
    \/ t \in Workers /\ pc[t] \in {"dequeue", "lock_queue"} /\ queue_lock # Unlocked
    \/ t = StatusTask /\ status_pc = "lock_queue" /\ queue_lock.writer # 0
WaitsForGraph(t) ==
    \/ t \in Workers /\ pc[t] = "check" /\ graph_lock.writer # 0
    \/ t \in Workers /\ pc[t] = "lock_graph" /\ graph_lock # Unlocked
    \/ t = StatusTask /\ status_pc = "lock_graph" /\ graph_lock.writer # 0
    \/ t = MainTask /\ main_pc = "join" /\ joined = Tasks /\ graph_lock.writer # 0

\* C28: a worker or the status task holds the LinkGraph lock only while it
\* holds the Frontier lock, taken first; no task asks for the Frontier lock
\* while it holds the LinkGraph lock; no two tasks wait for each other's
\* lock; and while a worker is in its loop some worker or the status task
\* can take a step.
C28_LockOrder ==
    /\ \A t \in GraphHolders \ {MainTask} : t \in QueueHolders
    /\ \A t \in GraphHolders : ~WaitsForQueue(t)
    /\ \A t1, t2 \in Tasks \cup {MainTask} :
        ~(/\ WaitsForQueue(t1) /\ t2 \in QueueHolders
          /\ WaitsForGraph(t2) /\ t1 \in GraphHolders)
    /\ ~AllDone => ENABLED ((\E w \in Workers : WorkerStep(w)) \/ StatusStep)

\* C28 witness: a worker holds the Frontier lock and is about to take the
\* LinkGraph lock, while a sibling and the status task wait for the Frontier
\* lock.
C28_Witness ==
    \E w, v \in Workers :
        /\ pc[w] = "lock_graph" /\ queue_lock.writer = w
        /\ WaitsForQueue(v)
        /\ WaitsForQueue(StatusTask)

\* C29: update never returns an error: none has been logged, and the update
\* a worker in the merge step is about to call returns Ok, whichever of
\* force_get_link_id's branches and of the parent's cases it takes.
C29_UpdateNeverFails ==
    /\ update_errors = 0
    /\ \A w \in Workers :
        pc[w] = "merge"
            => update([links |-> links, link_ids |-> link_ids, counter |-> LINK_ID_COUNTER],
                      path[w].child, path[w].parent, scrape_output[w].links,
                      scrape_output[w].images, scrape_output[w].titles).err = ""
    /\ \A u \in DOMAIN link_ids : link_ids[u] \in DOMAIN links
    /\ \A i \in DOMAIN links : i < LINK_ID_COUNTER

\* C29 witness: three Links were created, pages were merged again through
\* parents that have their Link, and every worker is between two merges.
C29_Witness ==
    /\ update_errors = 0
    /\ len(links) >= 3
    /\ \E p \in Pages : fetched[p] >= 2
    /\ \E i \in DOMAIN links : Len(links[i].parents) >= 2
    /\ \A w \in Workers : pc[w] \in {"check", "done"}

====
